---- MODULE Spec2Model ----
(***************************************************************************)
(* Model of the audio file player of DSPDemos_Common.h driving the effect  *)
(* of IIRFilterDemo.h (pitch shifter + tempo-controlled resampler).        *)
(*                                                                         *)
(* Two threads: the control (message) thread runs the handlers of          *)
(* AudioFileReaderComponent, the sliders and the change listeners; the     *)
(* audio thread runs the device callback, which pulls one block from the   *)
(* source attached to audioSourcePlayer.  Objects are numbered by the      *)
(* generation that created them; 0 is the null pointer.  A pointer field   *)
(* keeps its number when the object it points to is destroyed, so a        *)
(* dangling pointer is a field that differs from the owning unique_ptr.    *)
(*                                                                         *)
(* Parameter values are counted in eighths (1.0 = 8) so that the slider    *)
(* intervals 1 and 0.25 are whole numbers.                                 *)
(***************************************************************************)
EXTENDS Integers, FiniteSets, TLC

\* ------------------------------------------------------------- bounds
MaxLoads == 2          \* loadURL calls in one behaviour
FileLen == 2           \* length of every decodable file, in blocks
NumRates == 1          \* distinct device formats (sample rates) 1..NumRates
ThumbWidth == 4        \* width of the thumbnail component, in pixels

\* ------------------------------------------------------ program constants
PitchStart == 0        \* pitchParam range start (0.0)
PitchEnd == 96         \* pitchParam range end (12.0)
PitchInterval == 8     \* pitchParam interval (1.0)
PitchInitial == 0      \* pitchParam initial value (0.0)
TempoStart == 2        \* tempoParam range start (0.25)
TempoEnd == 16         \* tempoParam range end (2.0)
TempoInterval == 2     \* tempoParam interval (0.25)
TempoInitial == 8      \* tempoParam initial value (1.0)
DefaultRatio == 8      \* ratio of a new ResamplingAudioSource (1.0)
DefaultShift == 0      \* shift of a new PitchShifter (0 semitones)

Params == {"pitch", "tempo"}

\* values a user may ask a slider to take (eighths); 44 = 5.5 snaps to 6.0,
\* 17 = 2.125 lies beyond the tempo range
PitchInputs == {0, 44}
TempoInputs == {8, 17}

VARIABLES
    playState,        \* Value playState
    loopState,        \* Value loopState
    loopNotify,       \* loopState's asynchronous valueChanged is pending
    reader,           \* unique_ptr<AudioFormatReader>
    readerSource,     \* unique_ptr<AudioFormatReaderSource>
    looping,          \* readerSource->isLooping()
    transportSource,  \* unique_ptr<AudioTransportSource>
    tSource,          \* the transport's source (a reader source)
    tPlaying,         \* transportSource->isPlaying()
    tPos,             \* the transport's read position, in blocks
    tNotify,          \* a change message of the transport is pending
    tRate,            \* rate the transport was prepared with, 0 = never
    resampleSource,   \* unique_ptr<ResamplingAudioSource>
    rInput,           \* the resampler's input (a transport)
    ratio,            \* the resampler's ratio
    rRate,            \* rate the resampler was prepared with, 0 = never
    currentDemo,      \* unique_ptr<DSPDemo<DemoType>>
    inputSource,      \* DSPDemo::inputSource (a transport)
    dResample,        \* DSPDemo::resampleSource (a resampler)
    sampleRate,       \* IIRFilterDemoDSP::sampleRate, 0 before prepare
    shift,            \* the shifter's shift, set by setShiftSemitones
    value,            \* slider value of each parameter
    pending,          \* parameters whose change message is pending
    lock,             \* holder of DSPDemo::audioCallbackLock
    playerSource,     \* audioSourcePlayer's source (a DSPDemo)
    deviceRate,       \* format of the running audio device, 0 = none
    thumbTransport,   \* AudioThumbnailComponent::transportSource
    ctl,              \* position of the control thread
    fileToPlay,       \* argument of the running loadURL
    aud,              \* position of the audio thread
    blkDemo,          \* the DSPDemo the running callback pulls from
    blkRatio,         \* resampler ratio used by the running block's pull
    blkShift,         \* shift used by the running block's process
    pullShift,        \* shift in force when the running block was pulled
    rcPitch,          \* pitch value at the last finished recompute, -1 none
    edited,           \* parameters with an undelivered change made by the user
    gen,              \* generation of the objects created last
    loads,            \* loadURL calls so far
    pre,              \* session state when the last loadURL was called
    asked,            \* the last value a slider was asked to take
    resetPosted,      \* a ResetCallback of the thumbnail is in the queue
    timerOn,          \* the thumbnail's timer is running
    thumbPos          \* AudioThumbnailComponent::currentPosition, in blocks

sessionVars == <<reader, readerSource, looping>>
transportVars ==
    <<transportSource, tSource, tPlaying, tPos, tNotify, tRate>>
resampleVars == <<resampleSource, rInput, ratio, rRate>>
demoVars == <<currentDemo, inputSource, dResample, sampleRate, shift, value, pending>>
audioVars == <<aud, blkDemo, blkRatio, blkShift, pullShift>>
ghostVars == <<rcPitch, edited, gen, loads, pre>>
thumbVars == <<resetPosted, timerOn, thumbPos>>

vars == <<playState, loopState, loopNotify, sessionVars, transportVars,
          resampleVars, demoVars, lock, playerSource, deviceRate,
          thumbTransport, ctl, fileToPlay, audioVars, ghostVars, asked,
          thumbVars>>

\* ----------------------------------------------------------- sliders

Min(a, b) == IF a < b THEN a ELSE b
Max(a, b) == IF a > b THEN a ELSE b

RangeStart(p) == IF p = "pitch" THEN PitchStart ELSE TempoStart
RangeEnd(p) == IF p = "pitch" THEN PitchEnd ELSE TempoEnd
Interval(p) == IF p = "pitch" THEN PitchInterval ELSE TempoInterval
InitialValue(p) == IF p = "pitch" THEN PitchInitial ELSE TempoInitial
Inputs(p) == IF p = "pitch" THEN PitchInputs ELSE TempoInputs

\* a slider that cuts the value down to the interval below it
snapToLegalValue_RoundingDown(p, v) ==
    LET s == RangeStart(p)
        i == Interval(p)
        snapped == s + i * ((v - s) \div i)
    IN  IF snapped <= s THEN s
        ELSE IF snapped >= RangeEnd(p) THEN RangeEnd(p) ELSE snapped

\* Slider::setValue constrains the value with the range of setRange: snap to
\* start + interval * floor ((v - start) / interval + 0.5), then clamp.
snapToLegalValue(p, v) ==
    LET s == RangeStart(p)
        i == Interval(p)
        snapped == s + i * ((2 * (v - s) + i) \div (2 * i))
    IN  IF snapped <= s THEN s
        ELSE IF snapped >= RangeEnd(p) THEN RangeEnd(p) ELSE snapped

\* a SliderParameter that is never given its initial value
ConstructedValue_InitialIgnored(p) == snapToLegalValue(p, 0)

\* The SliderParameter constructor: setRange pulls the slider's value 0 into
\* the range without notifying, setValue (initialValue) then notifies
\* asynchronously when it changes the value; onValueChange is installed
\* before that notification is delivered.
ConstructedValue(p) == snapToLegalValue(p, InitialValue(p))
ConstructedPending == {p \in Params : ConstructedValue(p) # snapToLegalValue(p, 0)}

\* ------------------------------------------------------------- helpers

\* a prepareToPlay that leaves the effect as it was
PreparedRate_EffectSkipped(attached, rate) == sampleRate

\* DSPDemo::prepareToPlay, lines 291-292: the rate the transport or the
\* resampler, prepared with old before, is prepared with afterwards
PreparedSource(attached, rate, old) ==
    IF attached # 0 /\ rate # 0 THEN rate ELSE old

\* DSPDemo::prepareToPlay on the attached demo: prepares the transport, the
\* resampler and the effect (IIRFilterDemoDSP::prepare stores the rate).
PreparedRate(attached, rate) ==
    IF attached # 0 /\ rate # 0 THEN rate ELSE sampleRate

\* no slider has been asked for a value
NoRequest == [param |-> "none", v |-> 0]

NoSnapshot ==
    [transport |-> 0, reader |-> 0, pos |-> 0, playing |-> FALSE,
     play |-> FALSE, attached |-> 0, demo |-> 0, resampler |-> 0,
     value |-> [p \in Params |-> 0]]

\* the session as loadURL finds it
Snapshot ==
    [transport |-> transportSource, reader |-> readerSource, pos |-> tPos,
     playing |-> tPlaying, play |-> playState, attached |-> playerSource,
     demo |-> currentDemo, resampler |-> resampleSource, value |-> value]

\* ---------------------------------------------------------------- Init

Init ==
    /\ playState = FALSE
    /\ loopState = FALSE
    /\ loopNotify = FALSE
    /\ reader = 0
    /\ readerSource = 0
    /\ looping = FALSE
    /\ deviceRate \in 0..NumRates
    \* init() of the constructor: no reader source yet
    /\ transportSource = 1
    /\ tSource = 0
    /\ tPlaying = FALSE
    /\ tPos = 0
    /\ tNotify = FALSE
    /\ tRate = deviceRate
    /\ resampleSource = 1
    /\ rInput = 1
    /\ ratio = DefaultRatio
    /\ rRate = deviceRate
    /\ currentDemo = 1
    /\ inputSource = 1
    /\ dResample = 1
    /\ sampleRate = deviceRate
    /\ shift = DefaultShift
    /\ value = [p \in Params |-> ConstructedValue(p)]
    /\ pending = ConstructedPending
    /\ lock = "free"
    /\ playerSource = 1
    /\ thumbTransport = 0
    /\ ctl = "idle"
    /\ aud = "idle"
    /\ blkDemo = 0
    /\ blkRatio = 0
    /\ blkShift = 0
    /\ pullShift = 0
    /\ rcPitch = -1
    /\ edited = {}
    /\ gen = 1
    /\ loads = 0
    /\ fileToPlay = "none"
    /\ pre = NoSnapshot
    /\ asked = NoRequest
    /\ resetPosted = FALSE
    /\ timerOn = FALSE
    /\ thumbPos = 0

\* ------------------------------------------- control thread: transport

\* a stop that does not rewind the transport
StoppedTransport_NoRewind ==
    /\ IF transportSource # 0
       THEN /\ tPlaying' = FALSE
            /\ tNotify' = (tNotify \/ tPlaying)
            /\ UNCHANGED tPos
       ELSE UNCHANGED <<tPlaying, tPos, tNotify>>
    /\ UNCHANGED <<transportSource, tSource, tRate>>

\* the transport after AudioFileReaderComponent::stop: stopped and rewound;
\* AudioTransportSource::stop sends a change message when it was playing
StoppedTransport ==
    /\ IF transportSource # 0
       THEN /\ tPlaying' = FALSE
            /\ tPos' = 0
            /\ tNotify' = (tNotify \/ tPlaying)
       ELSE UNCHANGED <<tPlaying, tPos, tNotify>>
    /\ UNCHANGED <<transportSource, tSource, tRate>>

\* the message thread runs one handler at a time, as long as no exception
\* has ended the program
Handler == ctl = "idle" /\ aud # "escaped"

\* AudioFileReaderComponent::stop
Stop ==
    /\ Handler
    /\ playState' = FALSE
    /\ StoppedTransport
    /\ UNCHANGED <<loopState, loopNotify, sessionVars, resampleVars, demoVars,
                   lock, playerSource, deviceRate, thumbTransport, ctl,
                   fileToPlay, audioVars, rcPitch, edited, gen, loads, pre>>
    /\ UNCHANGED <<asked, thumbVars>>

\* getCurrentPosition / getLengthInSeconds of a transport: 0 without a source
Position == IF tSource # 0 THEN tPos ELSE 0
Length == IF tSource # 0 THEN FileLen ELSE 0

\* play() that starts the transport wherever it stands
PlayEffect_NoRewind ==
    IF readerSource = 0
    THEN UNCHANGED <<playState, transportVars>>
    ELSE /\ tPlaying' = (tPlaying \/ tSource # 0)
         /\ tNotify' = (tNotify \/ (~tPlaying /\ tSource # 0))
         /\ playState' = TRUE
         /\ UNCHANGED <<transportSource, tSource, tRate, tPos>>

\* the body of AudioFileReaderComponent::play
PlayEffect ==
    IF readerSource = 0
    THEN UNCHANGED <<playState, transportVars>>
    ELSE /\ tPos' = IF Position >= Length \/ Position < 0 THEN 0 ELSE tPos
         \* AudioTransportSource::start starts only a transport with a source
         /\ tPlaying' = (tPlaying \/ tSource # 0)
         /\ tNotify' = (tNotify \/ (~tPlaying /\ tSource # 0))
         /\ playState' = TRUE
         /\ UNCHANGED <<transportSource, tSource, tRate>>

\* AudioFileReaderComponent::play
Play ==
    /\ Handler
    /\ PlayEffect
    /\ UNCHANGED <<loopState, loopNotify, sessionVars, resampleVars, demoVars,
                   lock, playerSource, deviceRate, thumbTransport, ctl,
                   fileToPlay, audioVars, rcPitch, edited, gen, loads, pre>>
    /\ UNCHANGED <<asked, thumbVars>>

\* AudioFileReaderComponent::togglePlay
TogglePlay ==
    /\ Handler
    /\ IF playState
       THEN playState' = FALSE /\ StoppedTransport
       ELSE PlayEffect
    /\ UNCHANGED <<loopState, loopNotify, sessionVars, resampleVars, demoVars,
                   lock, playerSource, deviceRate, thumbTransport, ctl,
                   fileToPlay, audioVars, rcPitch, edited, gen, loads, pre>>
    /\ UNCHANGED <<asked, thumbVars>>

\* a change listener that leaves playState alone when the transport stopped
TransportChanged_NoStop ==
    /\ Handler
    /\ tNotify
    /\ tNotify' = FALSE
    /\ UNCHANGED <<playState, tPos>>
    /\ UNCHANGED <<transportSource, tSource, tRate, tPlaying>>
    /\ UNCHANGED <<loopState, loopNotify, sessionVars, resampleVars, demoVars,
                   lock, playerSource, deviceRate, thumbTransport, ctl,
                   fileToPlay, audioVars, rcPitch, edited, gen, loads, pre>>
    /\ UNCHANGED <<asked, thumbVars>>

\* AudioFileReaderComponent::changeListenerCallback, on the transport's
\* change message
TransportChanged ==
    /\ Handler
    /\ tNotify
    /\ IF playState /\ ~tPlaying
       THEN /\ playState' = FALSE
            /\ tPos' = 0
       ELSE UNCHANGED <<playState, tPos>>
    /\ tNotify' = FALSE
    /\ UNCHANGED <<transportSource, tSource, tRate, tPlaying>>
    /\ UNCHANGED <<loopState, loopNotify, sessionVars, resampleVars, demoVars,
                   lock, playerSource, deviceRate, thumbTransport, ctl,
                   fileToPlay, audioVars, rcPitch, edited, gen, loads, pre>>
    /\ UNCHANGED <<asked, thumbVars>>

\* drag coordinates: left of the thumbnail, inside it, on its right edge and
\* beyond its right edge
DragXs ==
    {-1, ThumbWidth \div 2, ThumbWidth, ThumbWidth + ThumbWidth \div 2}

\* mouseDrag, line 217: (jmax (x, 0) / getWidth()) * getTotalLength(), in
\* whole blocks; the positions past the end of the file are all alike
DragPosition(x) ==
    Min((Max(x, 0) * FileLen) \div ThumbWidth, FileLen + 1)

\* AudioThumbnailComponent::mouseDrag, under the audio callback lock
MouseDrag(x) ==
    /\ Handler
    /\ thumbTransport # 0
    /\ aud = "idle"
    /\ tPos' = IF tSource # 0 THEN DragPosition(x) ELSE tPos
    /\ UNCHANGED <<transportSource, tSource, tRate, tPlaying, tNotify>>
    /\ UNCHANGED <<playState, loopState, loopNotify, sessionVars, resampleVars,
                   demoVars, lock, playerSource, deviceRate, thumbTransport,
                   ctl, fileToPlay, audioVars, rcPitch, edited, gen, loads, pre>>
    /\ UNCHANGED <<asked, thumbVars>>

\* the loop button, which refers to loopState; its listeners are told
\* asynchronously
ToggleLoop ==
    /\ Handler
    /\ loopState' = ~loopState
    /\ loopNotify' = TRUE
    /\ UNCHANGED <<playState, sessionVars, transportVars, resampleVars,
                   demoVars, lock, playerSource, deviceRate, thumbTransport,
                   ctl, fileToPlay, audioVars, rcPitch, edited, gen, loads, pre>>
    /\ UNCHANGED <<asked, thumbVars>>

\* AudioFileReaderComponent::valueChanged
LoopChanged ==
    /\ Handler
    /\ loopNotify
    /\ loopNotify' = FALSE
    /\ looping' = IF readerSource # 0 THEN loopState ELSE looping
    /\ UNCHANGED <<reader, readerSource>>
    /\ UNCHANGED <<playState, loopState, transportVars, resampleVars,
                   demoVars, lock, playerSource, deviceRate, thumbTransport,
                   ctl, fileToPlay, audioVars, rcPitch, edited, gen, loads, pre>>
    /\ UNCHANGED <<asked, thumbVars>>

\* AudioFileReaderComponent::setLooping (shouldLoop)
SetLooping(shouldLoop) ==
    /\ Handler
    /\ looping' = IF readerSource # 0 THEN shouldLoop ELSE looping
    /\ UNCHANGED <<reader, readerSource>>
    /\ UNCHANGED <<playState, loopState, loopNotify, transportVars,
                   resampleVars, demoVars, lock, playerSource, deviceRate,
                   thumbTransport, ctl, fileToPlay, audioVars, ghostVars>>
    /\ UNCHANGED <<asked, thumbVars>>

\* ------------------------------------------------ control thread: load

\* what opening a URL gives: a decodable file, or a failure of
\* makeInputSource, of createInputStream or of createReaderFor
Urls == {"good", "nosource", "nostream", "noreader"}

\* loadURL that does not stop playback first
LoadURL_NoStop(u) ==
    /\ Handler
    /\ loads < MaxLoads
    /\ loads' = loads + 1
    /\ pre' = Snapshot
    /\ fileToPlay' = u
    /\ ctl' = "load_detach"
    /\ UNCHANGED <<playState, transportVars>>
    /\ UNCHANGED <<loopState, loopNotify, sessionVars, resampleVars, demoVars,
                   lock, playerSource, deviceRate, thumbTransport, audioVars,
                   rcPitch, edited, gen>>
    /\ UNCHANGED <<asked, thumbVars>>

\* loadURL, line 401: stop()
LoadURL(u) ==
    /\ Handler
    /\ loads < MaxLoads
    /\ loads' = loads + 1
    /\ pre' = Snapshot
    /\ fileToPlay' = u
    /\ playState' = FALSE
    /\ StoppedTransport
    /\ ctl' = "load_detach"
    /\ UNCHANGED <<loopState, loopNotify, sessionVars, resampleVars, demoVars,
                   lock, playerSource, deviceRate, thumbTransport, audioVars,
                   rcPitch, edited, gen>>
    /\ UNCHANGED <<asked, thumbVars>>

\* loadURL, line 403: audioSourcePlayer.setSource (nullptr) swaps the source
\* under the lock the device callback holds
LoadDetach ==
    /\ ctl = "load_detach"
    /\ aud = "idle"
    /\ playerSource' = 0
    /\ ctl' = "load_destroy"
    /\ UNCHANGED <<playState, loopState, loopNotify, sessionVars,
                   transportVars, resampleVars, demoVars, lock, deviceRate,
                   thumbTransport, fileToPlay, audioVars, ghostVars>>
    /\ UNCHANGED <<asked, thumbVars>>

\* a loadURL that destroys the transport without telling the thumbnail
LoadDestroy_ThumbnailNotTold ==
    /\ ctl = "load_destroy"
    /\ UNCHANGED <<thumbTransport, resetPosted>>
    /\ transportSource' = 0
    /\ tSource' = 0
    /\ tPlaying' = FALSE
    /\ tPos' = 0
    /\ tNotify' = FALSE
    /\ tRate' = 0
    /\ readerSource' = 0
    /\ looping' = FALSE
    /\ ctl' = "load_open"
    /\ UNCHANGED <<playState, loopState, loopNotify, reader, resampleVars,
                   demoVars, lock, playerSource, deviceRate, fileToPlay,
                   audioVars, ghostVars>>
    /\ UNCHANGED <<asked, timerOn, thumbPos>>

\* loadURL, lines 404-406: the thumbnail forgets the transport, the transport
\* and the reader source are destroyed
LoadDestroy ==
    /\ ctl = "load_destroy"
    \* setTransportSource (nullptr) posts a ResetCallback
    /\ thumbTransport' = 0
    /\ resetPosted' = TRUE
    /\ transportSource' = 0
    /\ tSource' = 0
    /\ tPlaying' = FALSE
    /\ tPos' = 0
    /\ tNotify' = FALSE
    /\ tRate' = 0
    /\ readerSource' = 0
    /\ looping' = FALSE
    /\ ctl' = "load_open"
    /\ UNCHANGED <<playState, loopState, loopNotify, reader, resampleVars,
                   demoVars, lock, playerSource, deviceRate, fileToPlay,
                   audioVars, ghostVars>>
    /\ UNCHANGED <<asked, timerOn, thumbPos>>

\* loadURL, lines 408-424
LoadOpen ==
    /\ ctl = "load_open"
    /\ IF fileToPlay = "good"
       THEN /\ gen' = gen + 1
            /\ reader' = gen'
            /\ readerSource' = gen'
            /\ looping' = loopState
            /\ ctl' = "load_init"
            /\ UNCHANGED <<fileToPlay, pre>>
       ELSE /\ reader' = IF fileToPlay = "noreader" THEN 0 ELSE reader
            /\ ctl' = "idle"
            /\ fileToPlay' = "none"
            /\ pre' = NoSnapshot
            /\ UNCHANGED <<gen, readerSource, looping>>
    /\ UNCHANGED <<playState, loopState, loopNotify, transportVars,
                   resampleVars, demoVars, lock, playerSource, deviceRate,
                   thumbTransport, audioVars, rcPitch, edited, loads>>
    /\ UNCHANGED <<asked, thumbVars>>

\* init, lines 453-474: a new transport and resampler when there is no
\* transport, wired to the reader source when a device is current; then a
\* new DSPDemo on the transport and the resampler
LoadInit ==
    /\ ctl = "load_init"
    /\ IF transportSource = 0
       THEN /\ transportSource' = gen
            /\ tPlaying' = FALSE
            /\ tPos' = 0
            /\ tNotify' = FALSE
            /\ tRate' = 0
            /\ resampleSource' = gen
            /\ rInput' = gen
            /\ ratio' = DefaultRatio
            /\ rRate' = 0
            /\ IF readerSource # 0 /\ deviceRate # 0
               THEN /\ tSource' = readerSource
                    \* setTransportSource posts a ResetCallback
                    /\ thumbTransport' = gen
                    /\ resetPosted' = TRUE
               ELSE /\ tSource' = 0
                    /\ UNCHANGED <<thumbTransport, resetPosted>>
       ELSE UNCHANGED <<transportVars, resampleVars, thumbTransport,
                        resetPosted>>
    /\ playerSource' = 0
    /\ currentDemo' = gen
    /\ inputSource' = transportSource'
    /\ dResample' = resampleSource'
    /\ sampleRate' = 0
    /\ shift' = DefaultShift
    /\ value' = [p \in Params |-> ConstructedValue(p)]
    /\ pending' = ConstructedPending
    /\ lock' = "free"
    /\ rcPitch' = -1
    /\ edited' = {}
    /\ ctl' = "load_attach"
    /\ UNCHANGED <<playState, loopState, loopNotify, sessionVars, deviceRate,
                   fileToPlay, audioVars, gen, loads, pre>>
    /\ UNCHANGED <<asked, timerOn, thumbPos>>

\* init, line 476: audioSourcePlayer.setSource (currentDemo.get()) prepares
\* the demo when a device is running, then swaps it in; loadURL returns true
LoadAttach ==
    /\ ctl = "load_attach"
    /\ aud = "idle"
    /\ tRate' = PreparedSource(currentDemo, deviceRate, tRate)
    /\ rRate' = PreparedSource(currentDemo, deviceRate, rRate)
    /\ sampleRate' = PreparedRate(currentDemo, deviceRate)
    /\ playerSource' = currentDemo
    /\ ctl' = "idle"
    /\ fileToPlay' = "none"
    /\ pre' = NoSnapshot
    /\ UNCHANGED <<currentDemo, inputSource, dResample, shift, value, pending>>
    /\ UNCHANGED <<transportSource, tSource, tPlaying, tPos, tNotify>>
    /\ UNCHANGED <<resampleSource, rInput, ratio>>
    /\ UNCHANGED <<playState, loopState, loopNotify, sessionVars, lock,
                   deviceRate, thumbTransport, audioVars, rcPitch, edited,
                   gen, loads>>
    /\ UNCHANGED <<asked, thumbVars>>

\* ------------------------------------------ control thread: parameters

\* sliders that share one change message instead of owning one each
SetValue_SharedMessage(p, v) ==
    /\ Handler
    /\ LET nv == snapToLegalValue(p, v)
       IN  IF nv # value[p]
           THEN /\ value' = [value EXCEPT ![p] = nv]
                /\ pending' = IF pending = {} THEN {p} ELSE pending
                /\ edited' = IF pending = {} THEN {p} ELSE edited
           ELSE UNCHANGED <<value, pending, edited>>
    /\ UNCHANGED <<currentDemo, inputSource, dResample, sampleRate, shift>>
    /\ UNCHANGED <<playState, loopState, loopNotify, sessionVars,
                   transportVars, resampleVars, lock, playerSource,
                   deviceRate, thumbTransport, ctl, fileToPlay, audioVars,
                   rcPitch, gen, loads, pre>>
    /\ UNCHANGED <<asked, thumbVars>>

\* a slider is set to v: Slider::setValue constrains v and, when the value
\* changes, calls onValueChange, which sends the parameter's change message
SetValue(p, v) ==
    /\ Handler
    /\ LET nv == snapToLegalValue(p, v)
       IN  IF nv # value[p]
           THEN /\ value' = [value EXCEPT ![p] = nv]
                /\ pending' = pending \cup {p}
                /\ edited' = edited \cup {p}
           ELSE UNCHANGED <<value, pending, edited>>
    /\ UNCHANGED <<currentDemo, inputSource, dResample, sampleRate, shift>>
    /\ UNCHANGED <<playState, loopState, loopNotify, sessionVars,
                   transportVars, resampleVars, lock, playerSource,
                   deviceRate, thumbTransport, ctl, fileToPlay, audioVars,
                   rcPitch, gen, loads, pre>>
    /\ UNCHANGED <<asked, thumbVars>>

\* DSPDemo::changeListenerCallback, line 326: the change message of
\* parameter p is delivered and the handler takes the audio lock
RecomputeEnter(p) ==
    /\ Handler
    /\ p \in pending
    /\ lock = "free"
    /\ lock' = "control"
    /\ pending' = pending \ {p}
    /\ edited' = edited \ {p}
    /\ ctl' = "rc_update"
    /\ UNCHANGED <<currentDemo, inputSource, dResample, sampleRate, shift, value>>
    /\ UNCHANGED <<playState, loopState, loopNotify, sessionVars,
                   transportVars, resampleVars, playerSource, deviceRate,
                   thumbTransport, fileToPlay, audioVars, rcPitch, gen, loads,
                   pre>>
    /\ UNCHANGED <<asked, thumbVars>>

\* IIRFilterDemoDSP::updateParameters
updateParameters == IF sampleRate # 0 THEN value["pitch"] ELSE shift

\* DSPDemo::changeListenerCallback, line 328
RecomputeUpdate ==
    /\ ctl = "rc_update"
    /\ shift' = updateParameters
    /\ ctl' = "rc_ratio"
    /\ UNCHANGED <<currentDemo, inputSource, dResample, sampleRate, value, pending>>
    /\ UNCHANGED <<playState, loopState, loopNotify, sessionVars,
                   transportVars, resampleVars, lock, playerSource,
                   deviceRate, thumbTransport, fileToPlay, audioVars,
                   ghostVars>>
    /\ UNCHANGED <<asked, thumbVars>>

\* the ratio pushed only when updateParameters ran
PushedRatio_WhenPrepared ==
    IF dResample # 0 /\ sampleRate # 0 THEN value["tempo"] ELSE ratio

\* the ratio after lines 329-331: the tempo value, whenever the demo has a
\* resampler
PushedRatio == IF dResample # 0 THEN value["tempo"] ELSE ratio

\* DSPDemo::changeListenerCallback, lines 329-332: the tempo value becomes
\* the resampler's ratio, the lock is released
RecomputeRatio ==
    /\ ctl = "rc_ratio"
    /\ ratio' = PushedRatio
    /\ lock' = "free"
    /\ rcPitch' = value["pitch"]
    /\ ctl' = "idle"
    /\ UNCHANGED <<resampleSource, rInput, rRate>>
    /\ UNCHANGED <<playState, loopState, loopNotify, sessionVars,
                   transportVars, demoVars, playerSource, deviceRate,
                   thumbTransport, fileToPlay, audioVars, edited, gen, loads,
                   pre>>
    /\ UNCHANGED <<asked, thumbVars>>

\* ------------------------------------------------------------- device

\* the device manager starts a device with format r: audioSourcePlayer
\* prepares its source (DSPDemo::prepareToPlay)
DeviceStart(r) ==
    /\ ctl = "idle"
    /\ aud = "idle"
    /\ deviceRate # r
    /\ deviceRate' = r
    /\ tRate' = PreparedSource(playerSource, r, tRate)
    /\ rRate' = PreparedSource(playerSource, r, rRate)
    /\ sampleRate' = PreparedRate(playerSource, r)
    /\ UNCHANGED <<currentDemo, inputSource, dResample, shift, value, pending>>
    /\ UNCHANGED <<transportSource, tSource, tPlaying, tPos, tNotify>>
    /\ UNCHANGED <<resampleSource, rInput, ratio>>
    /\ UNCHANGED <<playState, loopState, loopNotify, sessionVars, lock,
                   playerSource, thumbTransport, ctl, fileToPlay, audioVars,
                   ghostVars>>
    /\ UNCHANGED <<asked, thumbVars>>

\* the device stops; no device is current
DeviceStop ==
    /\ ctl = "idle"
    /\ aud = "idle"
    /\ deviceRate # 0
    /\ deviceRate' = 0
    /\ UNCHANGED <<playState, loopState, loopNotify, sessionVars,
                   transportVars, resampleVars, demoVars, lock, playerSource,
                   thumbTransport, ctl, fileToPlay, audioVars, ghostVars>>
    /\ UNCHANGED <<asked, thumbVars>>

\* -------------------------------------------------------- audio thread

\* the device callback enters DSPDemo::getNextAudioBlock of the attached demo
\* and, line 310, the resampler's getNextAudioBlock, which reads the ratio
AudioBegin ==
    /\ aud = "idle"
    /\ deviceRate # 0
    /\ playerSource # 0
    /\ aud' = "pulling"
    /\ blkDemo' = playerSource
    /\ blkRatio' = ratio
    /\ pullShift' = shift
    /\ UNCHANGED blkShift
    /\ UNCHANGED <<playState, loopState, loopNotify, sessionVars,
                   transportVars, resampleVars, demoVars, lock, playerSource,
                   deviceRate, thumbTransport, ctl, fileToPlay, ghostVars>>
    /\ UNCHANGED <<asked, thumbVars>>

\* AudioTransportSource::getNextAudioBlock, reached through the resampler:
\* a playing transport advances; past the end it wraps when looping and
\* otherwise stops and sends its change message
AudioPull ==
    /\ aud = "pulling"
    /\ aud' = "waiting"
    /\ IF tPlaying /\ tSource # 0
       THEN IF looping
            THEN /\ tPos' = (tPos + 1) % FileLen
                 /\ UNCHANGED <<tPlaying, tNotify>>
            ELSE /\ tPos' = Min(tPos + 1, FileLen + 1)
                 /\ tPlaying' = (tPos' <= FileLen)
                 /\ tNotify' = (tNotify \/ tPos' > FileLen)
       ELSE UNCHANGED <<tPos, tPlaying, tNotify>>
    /\ UNCHANGED <<transportSource, tSource, tRate>>
    /\ UNCHANGED <<blkDemo, blkRatio, blkShift, pullShift>>
    /\ UNCHANGED <<playState, loopState, loopNotify, sessionVars,
                   resampleVars, demoVars, lock, playerSource, deviceRate,
                   thumbTransport, ctl, fileToPlay, ghostVars>>
    /\ UNCHANGED <<asked, thumbVars>>

\* process entered without waiting for the audio lock
AudioLock_NoWait ==
    /\ aud = "waiting"
    /\ lock' = "audio"
    /\ aud' = "process"
    /\ blkShift' = shift
    /\ UNCHANGED <<blkDemo, blkRatio, pullShift>>
    /\ UNCHANGED <<playState, loopState, loopNotify, sessionVars,
                   transportVars, resampleVars, demoVars, playerSource,
                   deviceRate, thumbTransport, ctl, fileToPlay, ghostVars>>
    /\ UNCHANGED <<asked, thumbVars>>

\* DSPDemo::getNextAudioBlock, line 315: the audio lock is taken
AudioLock ==
    /\ aud = "waiting"
    /\ lock = "free"
    /\ lock' = "audio"
    /\ aud' = "process"
    /\ blkShift' = shift
    /\ UNCHANGED <<blkDemo, blkRatio, pullShift>>
    /\ UNCHANGED <<playState, loopState, loopNotify, sessionVars,
                   transportVars, resampleVars, demoVars, playerSource,
                   deviceRate, thumbTransport, ctl, fileToPlay, ghostVars>>
    /\ UNCHANGED <<asked, thumbVars>>

\* DSPDemo::getNextAudioBlock, lines 316-317: process, then the lock is
\* released and the callback returns
AudioProcess ==
    /\ aud = "process"
    /\ lock' = "free"
    /\ aud' = "idle"
    /\ blkDemo' = 0
    /\ blkRatio' = 0
    /\ blkShift' = 0
    /\ pullShift' = 0
    /\ UNCHANGED <<playState, loopState, loopNotify, sessionVars,
                   transportVars, resampleVars, demoVars, playerSource,
                   deviceRate, thumbTransport, ctl, fileToPlay, ghostVars>>
    /\ UNCHANGED <<asked, thumbVars>>

\* DSPDemo::getNextAudioBlock, line 316: process throws.  Nothing in
\* getNextAudioBlock or prepareToPlay catches: the ScopedLock is released by
\* the unwinding and the exception leaves the device callback, the block
\* still holding the samples that were pulled.
AudioFault ==
    /\ aud = "process"
    /\ lock' = "free"
    /\ aud' = "escaped"
    /\ blkDemo' = 0
    /\ blkRatio' = 0
    /\ blkShift' = 0
    /\ pullShift' = 0
    /\ UNCHANGED <<playState, loopState, loopNotify, sessionVars,
                   transportVars, resampleVars, demoVars, playerSource,
                   deviceRate, thumbTransport, ctl, fileToPlay, ghostVars>>
    /\ UNCHANGED <<asked, thumbVars>>

\* ---------------------------------------------------------------- Next

Next ==
    \/ Stop
    \/ Play
    \/ TogglePlay
    \/ TransportChanged
    \/ \E x \in DragXs : MouseDrag(x)
    \/ ToggleLoop
    \/ LoopChanged
    \/ \E b \in BOOLEAN : SetLooping(b)
    \/ \E u \in Urls : LoadURL(u)
    \/ LoadDetach
    \/ LoadDestroy
    \/ LoadOpen
    \/ LoadInit
    \/ LoadAttach
    \/ \E p \in Params : \E v \in Inputs(p) : SetValue(p, v)
    \/ \E p \in Params : RecomputeEnter(p)
    \/ RecomputeUpdate
    \/ RecomputeRatio
    \/ \E r \in 1..NumRates : DeviceStart(r)
    \/ DeviceStop
    \/ AudioBegin
    \/ AudioPull
    \/ AudioLock
    \/ AudioProcess
    \/ AudioFault

Spec == Init /\ [][Next]_vars

\* ------------------------------------------------- the sliders alone

\* the values a slider may be asked to take: every eighth from one interval
\* below its range to one interval above it
Requests(p) == (RangeStart(p) - Interval(p)) .. (RangeEnd(p) + Interval(p))

\* Slider::setValue (v) on the slider of parameter p, the request remembered;
\* getCurrentValue then reads value[p]
SliderSet(p, v) ==
    /\ Handler
    /\ asked' = [param |-> p, v |-> v]
    /\ LET nv == snapToLegalValue(p, v)
       IN  IF nv # value[p]
           THEN /\ value' = [value EXCEPT ![p] = nv]
                /\ pending' = pending \cup {p}
                /\ edited' = edited \cup {p}
           ELSE UNCHANGED <<value, pending, edited>>
    /\ UNCHANGED <<currentDemo, inputSource, dResample, sampleRate, shift>>
    /\ UNCHANGED <<playState, loopState, loopNotify, sessionVars,
                   transportVars, resampleVars, lock, playerSource,
                   deviceRate, thumbTransport, ctl, fileToPlay, audioVars,
                   rcPitch, gen, loads, pre>>
    /\ UNCHANGED thumbVars

SliderNext == \E p \in Params : \E v \in Requests(p) : SliderSet(p, v)

SliderSpec == Init /\ [][SliderNext]_vars

\* ------------------------------------------------ the thumbnail's view

\* AudioThumbnailComponent::reset, run by a posted ResetCallback: the cursor
\* goes to 0, the timer runs exactly when the thumbnail has a transport.
\* Callbacks posted while one is waiting find the same pointer and do the
\* same.
ThumbReset ==
    /\ Handler
    /\ resetPosted
    /\ resetPosted' = FALSE
    /\ thumbPos' = 0
    /\ timerOn' = (thumbTransport # 0)
    /\ UNCHANGED <<playState, loopState, loopNotify, sessionVars,
                   transportVars, resampleVars, demoVars, lock, playerSource,
                   deviceRate, thumbTransport, ctl, fileToPlay, audioVars,
                   ghostVars, asked>>

\* what getCurrentPosition gives through the thumbnail's pointer: the
\* position of the live transport, anything when the transport is destroyed
ThumbReads ==
    IF thumbTransport = transportSource THEN {Position} ELSE 0..(FileLen + 1)

\* AudioThumbnailComponent::timerCallback
TimerTick ==
    /\ Handler
    /\ timerOn
    /\ IF thumbTransport # 0
       THEN thumbPos' \in ThumbReads
       ELSE UNCHANGED thumbPos
    /\ UNCHANGED <<resetPosted, timerOn>>
    /\ UNCHANGED <<playState, loopState, loopNotify, sessionVars,
                   transportVars, resampleVars, demoVars, lock, playerSource,
                   deviceRate, thumbTransport, ctl, fileToPlay, audioVars,
                   ghostVars, asked>>

\* the handlers that touch what the thumbnail reads (the session, the
\* transport, the device), with the thumbnail's own callbacks
ThumbNext ==
    \/ Stop
    \/ Play
    \/ TogglePlay
    \/ TransportChanged
    \/ \E x \in DragXs : MouseDrag(x)
    \/ \E u \in Urls : LoadURL(u)
    \/ LoadDetach
    \/ LoadDestroy
    \/ LoadOpen
    \/ LoadInit
    \/ LoadAttach
    \/ \E r \in 1..NumRates : DeviceStart(r)
    \/ DeviceStop
    \/ AudioBegin
    \/ AudioPull
    \/ AudioLock
    \/ AudioProcess
    \/ ThumbReset
    \/ TimerTick

ThumbSpec == Init /\ [][ThumbNext]_vars

\* -------------------------------------------------------------- claims

InBlock == aud \in {"pulling", "waiting", "process"}
InRecompute == ctl \in {"rc_update", "rc_ratio"}
Replacing == ctl \in {"load_destroy", "load_open", "load_init", "load_attach"}

\* the positions of the control thread inside loadURL
LoadSteps ==
    {"load_detach", "load_destroy", "load_open", "load_init", "load_attach"}

\* C1: a loadURL that fails leaves the session it found untouched: the
\* transport and the reader source it found are still live, position, play
\* state and playState are what they were, the effect host is still attached.
C1_FailedLoadKeepsSession ==
    [][(ctl = "load_open" /\ ctl' = "idle" /\ pre.reader # 0)
        => /\ transportSource' = pre.transport
           /\ readerSource' = pre.reader
           /\ tPos' = pre.pos
           /\ tPlaying' = pre.playing
           /\ playState' = pre.play
           /\ playerSource' = pre.attached
           /\ playerSource' # 0]_vars

\* C2: the effect host is detached while loadURL replaces the session, and
\* whenever the audio thread is inside a block the host it pulls from is the
\* live one, its transport and resampler are live and wired to each other,
\* and the transport is wired to the loaded reader source.
C2_AudioNeverSeesHalfBuiltSession ==
    /\ Replacing => (playerSource = 0 /\ ~InBlock)
    /\ InBlock =>
        /\ blkDemo = currentDemo
        /\ transportSource # 0
        /\ inputSource = transportSource
        /\ resampleSource # 0
        /\ dResample = resampleSource
        /\ rInput = transportSource
        /\ readerSource # 0 => tSource = readerSource

\* the part of C2 that does not depend on a device being current at load
\* time: detached while replacing, and only live objects are pulled from
PullsOnlyFromLiveObjects ==
    /\ Replacing => (playerSource = 0 /\ ~InBlock)
    /\ InBlock =>
        /\ blkDemo = currentDemo
        /\ transportSource # 0
        /\ inputSource = transportSource
        /\ resampleSource # 0
        /\ dResample = resampleSource
        /\ rInput = transportSource

\* C3: process (audio thread) and updateParameters (control thread) never
\* run at the same time, each holding the audio lock while it runs, and once
\* updateParameters has run the shift is the pitch value it read.
C3_ProcessExcludesUpdate ==
    /\ ~(aud = "process" /\ InRecompute)
    /\ (aud = "process") = (lock = "audio")
    /\ InRecompute = (lock = "control")
    /\ (ctl = "rc_ratio" /\ sampleRate # 0) => shift = value["pitch"]

\* the audio thread waits for the lock while a recompute that changed the
\* shift holds it
C3_Witness ==
    /\ aud = "waiting"
    /\ ctl = "rc_ratio"
    /\ sampleRate # 0
    /\ shift # DefaultShift
    /\ pullShift = DefaultShift

\* C4: setResamplingRatio of a recompute never runs while the audio thread
\* is inside the resampler's getNextAudioBlock (stated for the writes that
\* change the ratio).
C4_RatioWriteExcludesPull ==
    ~(aud = "pulling" /\ ctl = "rc_ratio" /\ value["tempo"] # ratio)

\* C5: the coefficients a block is processed with are those in force when
\* the block was pulled: no recompute is applied between a block's pull and
\* its process.
C5_NoRecomputeInsideBlock == aud = "process" => blkShift = pullShift

\* C6: every block processed after a recompute is processed with the pitch
\* value the parameter had at the most recent recompute.
C6_RecomputeVisibleInNextBlock ==
    (aud = "process" /\ rcPitch # -1) => blkShift = rcPitch

\* C7: with no change message pending the resampler's ratio is the tempo
\* value; every recompute pushes the tempo value into the resampler; the
\* ratio of a block being pulled is the one read when its pull began.
C7_RatioFollowsTempo ==
    [][/\ (ctl' = "idle" /\ pending' = {}) => ratio' = value'["tempo"]
       /\ (ctl = "rc_ratio" /\ ctl' = "idle") => ratio' = value["tempo"]
       /\ (InBlock /\ InBlock') => blkRatio' = blkRatio]_vars

\* after a failed load, a tempo edit reached the resampler of an effect that
\* was never prepared
C7_Witness ==
    /\ ctl = "idle"
    /\ pending = {}
    /\ loads > 0
    /\ transportSource = 0
    /\ sampleRate = 0
    /\ ratio = TempoEnd
    /\ value["tempo"] = TempoEnd

\* C8 as stated: the edits made before the next dispatch collapse to a single
\* recompute pass, so at most one recompute is owed to them.
C8_BatchIsOneRecompute == Cardinality(edited) <= 1

\* C8 amended: a value change leaves exactly the edited parameter's change
\* message pending (a second edit of the same parameter adds none), each
\* delivery runs one recompute and consumes one parameter's message, and
\* messages disappear otherwise only with the effect host that owns them.
C8_OneRecomputePerEditedParameter ==
    [][/\ \A p \in Params :
            (currentDemo' = currentDemo /\ value'[p] # value[p])
                => (p \in pending' /\ pending' = pending \cup {p})
       /\ (ctl = "idle" /\ ctl' = "rc_update")
            => \E p \in pending : pending' = pending \ {p}
       /\ (currentDemo' = currentDemo /\ pending' # pending)
            => \/ ctl = "idle" /\ ctl' = "rc_update"
               \/ \E p \in Params : value'[p] # value[p]
       /\ (ctl = "rc_ratio" /\ ctl' = "idle") => pending' = pending]_vars

\* two parameters were edited and both messages are still to be delivered
C8_Witness ==
    /\ edited = Params
    /\ pending = Params
    /\ ctl = "idle"

\* C9: when loadURL returns true playback is stopped at position 0, the
\* transport and reader source it found are gone, and one transport, reader
\* source, resampler and effect host are live and wired, the host attached.
C9_SuccessfulLoadState ==
    [][(ctl = "load_attach" /\ ctl' = "idle")
        => /\ ~playState'
           /\ ~tPlaying'
           /\ tPos' = 0
           /\ transportSource' \notin {0, pre.transport}
           /\ readerSource' \notin {0, pre.reader}
           /\ resampleSource' # 0
           /\ currentDemo' # 0
           /\ rInput' = transportSource'
           /\ inputSource' = transportSource'
           /\ dResample' = resampleSource'
           /\ playerSource' = currentDemo']_vars

\* the second successful load has returned: it replaced a loaded session
C9_Witness ==
    /\ ctl = "idle"
    /\ loads = 2
    /\ gen = 3
    /\ transportSource = 3
    /\ readerSource = 3
    /\ currentDemo = 3
    /\ playerSource = 3
    /\ ~playState
    /\ ~tPlaying
    /\ tPos = 0

\* C10: play() without a reader source changes nothing and playState is and
\* stays false; with a session whose position is at or past the length (or
\* negative) it rewinds to 0, then starts the transport.
C10_PlayNoOpOrRewind ==
    [][Play =>
        /\ readerSource = 0 =>
            (~playState /\ ~playState' /\ UNCHANGED transportVars)
        /\ (readerSource # 0 /\ (Position >= Length \/ Position < 0)) =>
            /\ tPos' = 0
            /\ playState'
            /\ tSource # 0 => tPlaying']_vars

\* a loaded, wired session stands past its end and is not playing
C10_Witness ==
    /\ ctl = "idle"
    /\ readerSource # 0
    /\ tSource # 0
    /\ ~tPlaying
    /\ tPos > FileLen

\* C11: play() right after a successful load (session loaded, stopped at
\* position 0, playState false) leaves the transport playing from 0 with the
\* loaded reader source as its source and the effect host attached, and
\* playState true only with a started transport, whether or not a device was
\* current when the file was loaded.
C11_PlayAfterLoadStarts ==
    [][(Play /\ readerSource # 0 /\ ~playState /\ ~tPlaying /\ tPos = 0)
        => /\ tPlaying'
           /\ tPos' = 0
           /\ tSource' = readerSource'
           /\ playerSource' = currentDemo'
           /\ playState' => tPlaying']_vars

\* C12: a playing transport that is pulled past the end of a file that does
\* not loop stops and sends its change message; the delivery of that message
\* sets playState false and rewinds; a stopped transport is not advanced by
\* later pulls and is started again only by play() (directly or through
\* togglePlay); a playing transport whose file loops is wrapped by the pull
\* and keeps playing.
C12_EndOfStreamStopsUnlessLooping ==
    [][/\ AudioPull =>
            /\ (tPlaying /\ ~looping /\ tPos >= FileLen)
                    => (~tPlaying' /\ tNotify')
            /\ (tPlaying /\ looping) => (tPlaying' /\ tPos' < FileLen)
            /\ ~tPlaying => (~tPlaying' /\ tPos' = tPos)
       /\ (TransportChanged /\ ~tPlaying) => (~playState' /\ ~tPlaying')
       /\ (~tPlaying /\ tPlaying') => (Play \/ TogglePlay)]_vars

\* the transport has stopped at the end of a file that does not loop and its
\* change message is still to be delivered
C12_Witness ==
    /\ ctl = "idle"
    /\ playState
    /\ tSource # 0
    /\ ~looping
    /\ ~tPlaying
    /\ tNotify
    /\ tPos > FileLen

\* C13: whatever the drag coordinate (left of the thumbnail, inside it, on
\* or beyond its right edge), the position mouseDrag sets on the transport
\* is at least 0 and strictly less than the length of the file.
C13_SeekStaysInsideFile ==
    [][(\E x \in DragXs : MouseDrag(x)) => (tPos' >= 0 /\ tPos' < Length)]_vars

\* C14 as stated: a slider asked for a value inside its range holds exactly
\* that value afterwards; asked for a value outside, it holds the nearest
\* bound of the range.
C14_RoundTripIsExact ==
    asked # NoRequest =>
        LET p == asked.param
            v == asked.v
        IN  value[p] = IF v < RangeStart(p) THEN RangeStart(p)
                       ELSE IF v > RangeEnd(p) THEN RangeEnd(p) ELSE v

\* C14 amended: the value a slider holds after it was asked for v is a whole
\* number of intervals above the range start and inside the range; it is the
\* nearest such value to v (the upper one of two equally near), hence v
\* itself when v is such a value, and the nearest bound when v is outside.
C14_RoundTripSnapsToInterval ==
    asked # NoRequest =>
        LET p == asked.param
            v == asked.v
            r == value[p]
            s == RangeStart(p)
            e == RangeEnd(p)
            i == Interval(p)
        IN  /\ s <= r /\ r <= e
            /\ (r - s) % i = 0
            /\ v <= s => r = s
            /\ v >= e => r = e
            /\ (s <= v /\ v <= e) => (2 * (v - r) < i /\ 2 * (r - v) <= i)
            /\ (s <= v /\ v <= e /\ (v - s) % i = 0) => r = v

\* the pitch slider was asked for 5.5, inside its range, and holds 6.0
C14_Witness ==
    /\ asked = [param |-> "pitch", v |-> 44]
    /\ value["pitch"] = 48

\* C15: a fault of the effect's process never leaves getNextAudioBlock: the
\* host swallows it and hands the device callback a block of silence, so the
\* audio thread is never found with an exception that escaped the host and a
\* block of unprocessed samples.
C15_FaultBecomesSilence == aud # "escaped"

\* C16: a loadURL that destroys the session it found (its reader source is
\* gone when loadURL returns, with true or with false) has also replaced the
\* effect host and the resampler it found by new ones: both, never one of
\* them and never neither.
C16_LoadRebuildsHostAndResampler ==
    [][(/\ ctl \in {"load_open", "load_attach"}
        /\ ctl' = "idle"
        /\ pre.reader # 0
        /\ readerSource' # pre.reader)
        => /\ currentDemo' \notin {0, pre.demo}
           /\ resampleSource' \notin {0, pre.resampler}]_vars

C18_NoReferenceToDestroyedTransport ==
    ctl = "idle" =>
        /\ currentDemo # 0 =>
            (inputSource = transportSource /\ transportSource # 0)
        /\ resampleSource # 0 =>
            (rInput = transportSource /\ transportSource # 0)

\* C19: the values of the parameters change only when a slider is set or
\* when the effect host is re-created; when loadURL returns true the host is
\* a new one, every parameter has its declared initial value and the
\* resampler's ratio and the shifter's shift are the initial speed and
\* pitch; when loadURL returns false the host and the parameter values are
\* the ones it found.
C19_LoadResetsParameters ==
    [][/\ value' # value =>
            \/ \E p \in Params : \E v \in Inputs(p) : SetValue(p, v)
            \/ LoadInit /\ currentDemo' # currentDemo
       /\ (ctl = "load_attach" /\ ctl' = "idle") =>
            /\ currentDemo' \notin {0, pre.demo}
            /\ \A p \in Params : value'[p] = InitialValue(p)
            /\ ratio' = TempoInitial
            /\ shift' = PitchInitial
       /\ (ctl = "load_open" /\ ctl' = "idle") =>
            /\ currentDemo' = pre.demo
            /\ value' = pre.value]_vars

\* a successful load found both parameters edited and has built a new host
\* whose parameters have their initial values
C19_Witness ==
    /\ ctl = "load_attach"
    /\ pre.value["pitch"] # PitchInitial
    /\ pre.value["tempo"] # TempoInitial
    /\ currentDemo # pre.demo
    /\ value = [p \in Params |-> InitialValue(p)]
    /\ ratio = TempoInitial
    /\ shift = PitchInitial

\* C20: between handlers, with a session loaded and no change of loopState
\* still to be delivered, the reader source loops exactly when loopState is
\* true, whatever toggles, setLooping calls and loads came before.
C20_LoopingFollowsLoopState ==
    (ctl = "idle" /\ readerSource # 0 /\ ~loopNotify) => looping = loopState

\* C21: whenever playState is false the transport is not playing; every step
\* that sets playState false, and every step of a load that ends with
\* playState false, leaves the position at 0; stop() on a session that is
\* playing or stands at a non-zero position leaves playState false and the
\* position 0; togglePlay() on a playing session sets playState false, and
\* on a stopped, loaded session it sets playState true and starts the
\* transport that has a source.
C21_StoppedMeansRewound ==
    [][/\ ~playState' => ~tPlaying'
       /\ (playState /\ ~playState') => tPos' = 0
       /\ (~playState' /\ (ctl \in LoadSteps \/ ctl' \in LoadSteps))
            => tPos' = 0
       /\ ((playState \/ tPos # 0) /\ Stop) => (~playState' /\ tPos' = 0)
       /\ (playState /\ TogglePlay) => ~playState'
       /\ (~playState /\ readerSource # 0 /\ TogglePlay)
            => (playState' /\ (tSource # 0 => tPlaying'))]_vars

\* a playing session has just been stopped: the transport is rewound and its
\* change message is still to be delivered
C21_Witness ==
    /\ ctl = "idle"
    /\ ~playState
    /\ tSource # 0
    /\ ~tPlaying
    /\ tNotify
    /\ tPos = 0

\* C22: the thumbnail's transport pointer is null or points to the live
\* transport, which is then wired to the loaded reader source, so whatever
\* the timer callback and the drag read or write through it is live; and
\* once the posted resets are delivered the timer runs exactly when the
\* thumbnail has a transport.
C22_ThumbnailSeesOnlyLiveTransport ==
    /\ thumbTransport # 0 =>
        /\ thumbTransport = transportSource
        /\ tSource # 0
        /\ tSource = readerSource
    /\ ~resetPosted => (timerOn = (thumbTransport # 0))

\* a failed load has destroyed the transport the running timer was showing:
\* the timer still runs, the reset is still to be delivered, and the
\* thumbnail's pointer is null
C22_Witness ==
    /\ ctl = "idle"
    /\ timerOn
    /\ resetPosted
    /\ transportSource = 0
    /\ thumbTransport = 0
    /\ thumbPos > 0

====
